---- MODULE Spec2Model ----
(***************************************************************************)
(* State-machine model of the chart components of timeSeriesChart:         *)
(* src/src/components/charts/BarChart.tsx and LineChart.tsx.               *)
(*                                                                         *)
(* One chart instance is mounted per behaviour (kind).  Its state is the   *)
(* React state of the component (hoveredLabel / crosshair), the size that  *)
(* useSize reports (w, h) and the props the host passes (data, series,     *)
(* showTooltip, barPadding, barOpacity, yDomain).  What a render draws is  *)
(* a function of that state and is given by operators.  Pixel positions    *)
(* and opacities are exact rationals <<numerator, denominator>>; the       *)
(* IEEE-754 rounding of the JavaScript build is not modelled.              *)
(* The axis groups are drawn by D3 inside an effect and stay in the DOM    *)
(* until the next effect run redraws them: axis holds what they show.      *)
(* kind = "size" is a host that calls the useSize hook on its own.         *)
(* told is a history variable of the onHover consumer: it has received a   *)
(* populated payload since the mount or since the last onHover(null).      *)
(***************************************************************************)
EXTENDS Integers, Sequences, FiniteSets, TLC

VARIABLES kind, w, h, data, series, showTooltip, barPadding, barOpacity,
          yDomain, hoveredLabel, crosshair, pointer, out, crashed, ev,
          xTickInterval, themeOverride, axis, mounted, observer, yTicks, told

vars == <<kind, w, h, data, series, showTooltip, barPadding, barOpacity,
          yDomain, hoveredLabel, crosshair, pointer, out, crashed, ev,
          xTickInterval, themeOverride, axis, mounted, observer, yTicks, told>>

(***************************************************************************)
(* Bounds of the model.                                                    *)
(***************************************************************************)
MaxLen == 3
MaxTickLen == 9

(***************************************************************************)
(* JavaScript values.                                                      *)
(***************************************************************************)
Null == [null |-> TRUE]
NoLabel == "<null>"
Undefined == "<undefined>"

Max(a, b) == IF a >= b THEN a ELSE b
Min(a, b) == IF a <= b THEN a ELSE b
Abs(a) == IF a < 0 THEN -a ELSE a

(***************************************************************************)
(* Exact rational arithmetic: <<n, d>> with d > 0 and gcd(n, d) = 1.       *)
(***************************************************************************)
RECURSIVE GCD(_, _)
GCD(a, b) == IF b = 0 THEN a ELSE GCD(b, a % b)

Rat(n, d) ==
  LET s == IF d < 0 THEN -1 ELSE 1
      g == GCD(Abs(n), Abs(d))
  IN  <<(s * n) \div g, (s * d) \div g>>

RInt(i) == <<i, 1>>
RAdd(p, q) == Rat(p[1] * q[2] + q[1] * p[2], p[2] * q[2])
RSub(p, q) == Rat(p[1] * q[2] - q[1] * p[2], p[2] * q[2])
RMul(p, q) == Rat(p[1] * q[1], p[2] * q[2])
RDiv(p, q) == Rat(p[1] * q[2], p[2] * q[1])
RLe(p, q) == p[1] * q[2] <= q[1] * p[2]
RLt(p, q) == p[1] * q[2] < q[1] * p[2]
RFloor(q) == q[1] \div q[2]
RCeil(q) == -((-q[1]) \div q[2])

\* Math.round: the nearest integer, a tie going to the larger one.
MathRound(q) == (2 * q[1] + q[2]) \div (2 * q[2])

(***************************************************************************)
(* Inputs: the data arrays the host can pass.                              *)
(***************************************************************************)
LabelNames ==
  <<"L1", "L2", "L3", "L4", "L5", "L6", "L7", "L8", "L9", "L10", "L11", "L12">>
MixedValues == <<12, 47, 8, 30, 21, 5, 40, 17, 33, 9, 26, 44>>
ValuePatterns == {"zero", "mixed"}
LabelOffsets == {0, 1}

\* k datums; labels start at LabelNames[1 + off] (a sliding time window).
MkData(k, vp, off) ==
  [i \in 1..k |-> [label |-> LabelNames[i + off],
                   value |-> IF vp = "zero" THEN 0 ELSE MixedValues[i]]]

\* Three datums, the third repeating the label of the first.
DupData ==
  <<[label |-> "L1", value |-> 12], [label |-> "L2", value |-> 47],
    [label |-> "L1", value |-> 8]>>

\* A data set whose only value is negative.
NegData == <<[label |-> "L1", value |-> -47]>>

DataPool ==
  {MkData(k, vp, off) : k \in 0..MaxLen, vp \in ValuePatterns, off \in LabelOffsets}
    \cup {DupData, NegData}

SeriesKeys == <<"TTFB", "FCP", "LCP">>

OtherPattern(vp) == IF vp = "zero" THEN "mixed" ELSE "zero"

\* A second series next to MkData(k, vp, off): with the same labels and
\* other values, one datum shorter or longer, or with other labels.
SecondData(k, vp, off, mode) ==
  CASE mode = "aligned" -> MkData(k, OtherPattern(vp), off)
    [] mode = "shorter" -> MkData(Max(k - 1, 0), vp, off)
    [] mode = "longer" -> MkData(k + 1, vp, off)
    [] OTHER -> MkData(k, vp, 1 - off)

SeriesModes == {"single", "aligned", "shorter", "longer", "shifted"}

MkSeries(k, vp, mode) ==
  IF mode = "single"
  THEN <<[key |-> SeriesKeys[1], data |-> MkData(k, vp, 0)]>>
  ELSE <<[key |-> SeriesKeys[1], data |-> MkData(k, vp, 0)],
         [key |-> SeriesKeys[2], data |-> SecondData(k, vp, 0, mode)]>>

\* No series, one series of either value pattern, or two series the first
\* of which has mixed values.
SeriesPool ==
  {<<>>} \cup {MkSeries(k, vp, "single") : k \in 0..MaxLen, vp \in ValuePatterns}
         \cup {MkSeries(k, "mixed", mode) : k \in 0..MaxLen, mode \in SeriesModes}

\* Container sizes <<width, height>> the ResizeObserver reports.
Sizes == {<<0, 0>>, <<64, 100>>, <<68, 100>>, <<68, 20>>}

(***************************************************************************)
(* Plot geometry (both charts).                                            *)
(***************************************************************************)
BarMarginTop == 8
BarMarginRight == 12
BarMarginLeft == 36
BarMarginBottom == 28
LineMarginTop == 8
LineMarginRight == 16
LineMarginLeft == 40
LineMarginBottom == 32

InnerWidth(k, cw) ==
  IF k = "bar" THEN Max(cw - BarMarginLeft - BarMarginRight, 0)
               ELSE Max(cw - LineMarginLeft - LineMarginRight, 0)

InnerHeight(k, ch) ==
  IF k = "bar" THEN Max(ch - BarMarginTop - BarMarginBottom, 0)
               ELSE Max(ch - LineMarginTop - LineMarginBottom, 0)

iw == InnerWidth(kind, w)
ih == InnerHeight(kind, h)

(***************************************************************************)
(* Ordinal domains of d3: the distinct values in order of first            *)
(* appearance.                                                             *)
(***************************************************************************)
RECURSIVE Dedup(_)
Dedup(s) ==
  IF Len(s) = 0 THEN <<>>
  ELSE LET front == Dedup(SubSeq(s, 1, Len(s) - 1))
           last == s[Len(s)]
       IN  IF \E i \in 1..Len(front) : front[i] = last
           THEN front ELSE Append(front, last)

\* 0-based position of v in the sequence s, or -1.
IndexOf(s, v) ==
  IF \E i \in 1..Len(s) : s[i] = v
  THEN (CHOOSE i \in 1..Len(s) : s[i] = v /\ \A j \in 1..(i - 1) : s[j] # v) - 1
  ELSE -1

\* a[i] of a JavaScript array of strings (i is 0-based).
At(a, i) == IF i >= 0 /\ i < Len(a) THEN a[i + 1] ELSE Undefined

(***************************************************************************)
(* LineChart: labels, point scale, hover resolution.                       *)
(***************************************************************************)
LabelsOf(ss) ==
  IF Len(ss) = 0 THEN <<>>
  ELSE [i \in 1..Len(ss[1].data) |-> ss[1].data[i].label]

labels == LabelsOf(series)

\* PointScale with align(0): the points start at the left edge.
PointScaleNoAlign(ls, width, l) ==
  LET dom == Dedup(ls)
      n == Len(dom)
      step == Rat(width, Max(1, n - 1))
      i == IndexOf(dom, l)
  IN  IF i < 0 THEN RInt(0) ELSE RMul(step, RInt(i))

\* d3.scalePoint().domain(ls).range([0, width]) applied to l, with the
\* caller's "?? 0" for a value outside the domain.
PointScale(ls, width, l) ==
  LET dom == Dedup(ls)
      n == Len(dom)
      step == Rat(width, Max(1, n - 1))
      start == RMul(RSub(RInt(width), RMul(step, RInt(n - 1))), Rat(1, 2))
      i == IndexOf(dom, l)
  IN  IF i < 0 THEN RInt(0) ELSE RAdd(start, RMul(step, RInt(i)))

\* HoverIndex with Math.floor in place of Math.round.
HoverIndexFloor(mx, n, width) ==
  LET step == Rat(width, Max(n - 1, 1))
  IN  Max(0, Min(RFloor(RDiv(RInt(mx), step)), n - 1))

\* HoverIndex clamped to the label count instead of the last index.
HoverIndexOffByOne(mx, n, width) ==
  LET step == Rat(width, Max(n - 1, 1))
  IN  Max(0, Min(MathRound(RDiv(RInt(mx), step)), n))

\* The index handleMouseMove resolves for pointer offset mx.
HoverIndex(mx, n, width) ==
  LET step == Rat(width, Max(n - 1, 1))
  IN  Max(0, Min(MathRound(RDiv(RInt(mx), step)), n - 1))

\* The value of the last datum in place of 0 beyond the end of the data.
ValueAtClamped(s, idx) ==
  IF idx >= 0 /\ idx < Len(s.data) THEN s.data[idx + 1].value
  ELSE IF Len(s.data) = 0 THEN 0 ELSE s.data[Len(s.data)].value

\* s.data[idx]?.value ?? 0
ValueAt(s, idx) ==
  IF idx >= 0 /\ idx < Len(s.data) THEN s.data[idx + 1].value ELSE 0

\* HoverValues reading every value from the first series.
HoverValuesFirstSeries(ss, idx) ==
  [k \in {ss[i].key : i \in 1..Len(ss)} |-> ValueAt(ss[1], idx)]

\* Object.fromEntries(series.map(s => [s.key, ...])): a later entry of the
\* same key replaces an earlier one.
HoverValues(ss, idx) ==
  [k \in {ss[i].key : i \in 1..Len(ss)} |->
     LET last == CHOOSE i \in 1..Len(ss) :
                   ss[i].key = k /\ \A j \in (i + 1)..Len(ss) : ss[j].key # k
     IN  ValueAt(ss[last], idx)]

LineHoverInfo(ss, idx) ==
  [index |-> idx, label |-> At(LabelsOf(ss), idx), values |-> HoverValues(ss, idx)]

(***************************************************************************)
(* d3.scaleBand().domain(ls).range([0, width]).padding(p): padding(p) sets *)
(* the inner and the outer padding to p; align is 0.5.                     *)
(***************************************************************************)
\* BandStep with paddingInner(p) only: no outer padding.
BandStepInnerOnly(n, width, p) ==
  LET slots == RSub(RInt(n), p)
  IN  RDiv(RInt(width), IF RLe(slots, RInt(1)) THEN RInt(1) ELSE slots)

BandStep(n, width, p) ==
  LET slots == RAdd(RSub(RInt(n), p), RMul(RInt(2), p))
  IN  RDiv(RInt(width), IF RLe(slots, RInt(1)) THEN RInt(1) ELSE slots)

Bandwidth(n, width, p) == RMul(BandStep(n, width, p), RSub(RInt(1), p))

\* BandScale with align(0): no outer padding on the left.
BandScaleNoAlign(ls, width, p, l) ==
  LET dom == Dedup(ls)
      step == BandStep(Len(dom), width, p)
      i == IndexOf(dom, l)
  IN  IF i < 0 THEN RInt(0) ELSE RMul(step, RInt(i))

\* xScale(l) ?? 0
BandScale(ls, width, p, l) ==
  LET dom == Dedup(ls)
      n == Len(dom)
      step == BandStep(n, width, p)
      start == RMul(RSub(RInt(width), RMul(step, RSub(RInt(n), p))), Rat(1, 2))
      i == IndexOf(dom, l)
  IN  IF i < 0 THEN RInt(0) ELSE RAdd(start, RMul(step, RInt(i)))

BarLabels(d) == [i \in 1..Len(d) |-> d[i].label]

(***************************************************************************)
(* The y scale: d3.max, the default domain, nice(), the linear map.        *)
(***************************************************************************)
RECURSIVE SeqMax(_)
SeqMax(vs) ==
  IF Len(vs) = 1 THEN vs[1]
  ELSE Max(vs[Len(vs)], SeqMax(SubSeq(vs, 1, Len(vs) - 1)))

\* d3.max(values) ?? 1: d3.max of no value is undefined.
MaxOrOne(vs) == IF Len(vs) = 0 THEN 1 ELSE SeqMax(vs)

BarValues(d) == [i \in 1..Len(d) |-> d[i].value]

RECURSIVE FlatValues(_)
FlatValues(ss) ==
  IF Len(ss) = 0 THEN <<>>
  ELSE FlatValues(SubSeq(ss, 1, Len(ss) - 1)) \o BarValues(ss[Len(ss)].data)

BarDataMax(d) == MaxOrOne(BarValues(d))
LineDataMax(ss) == MaxOrOne(FlatValues(ss))

\* const [lo, hi] = yDomain ?? [0, dataMax]
RawDomain(yd, dmax) == IF yd = Null THEN [lo |-> 0, hi |-> dmax] ELSE yd

RECURSIVE Pow10(_)
Pow10(k) == IF k <= 0 THEN 1 ELSE 10 * Pow10(k - 1)

RPow10(p) == IF p >= 0 THEN <<Pow10(p), 1>> ELSE <<1, Pow10(-p)>>

\* Math.floor(Math.log10(q)) for q > 0.
FloorLog10(q) ==
  CHOOSE p \in -6..6 : RLe(RPow10(p), q) /\ RLt(q, RPow10(p + 1))

\* d3-array tickIncrement(start, stop, count) for start < stop: a positive
\* result is the step, a negative result -1/step.  The thresholds are
\* sqrt(50), sqrt(10) and sqrt(2).
TickIncrement(start, stop, count) ==
  LET step == RDiv(RSub(stop, start), RInt(Max(0, count)))
      power == FloorLog10(step)
      error == RDiv(step, RPow10(power))
      sq == RMul(error, error)
      factor == IF RLe(RInt(50), sq) THEN 10
                ELSE IF RLe(RInt(10), sq) THEN 5
                ELSE IF RLe(RInt(2), sq) THEN 2 ELSE 1
  IN  IF power >= 0
      THEN RMul(RInt(factor), RPow10(power))
      ELSE RDiv(RInt(-Pow10(-power)), RInt(factor))

\* The loop with Math.floor and Math.ceil exchanged for a positive step:
\* the ends are rounded inward.
RECURSIVE NiceLoopInward(_, _, _, _, _)
NiceLoopInward(start, stop, prestep, maxIter, orig) ==
  IF maxIter = 0 \/ start = stop THEN orig
  ELSE LET step == TickIncrement(start, stop, 10)
       IN  IF step = prestep THEN <<start, stop>>
           ELSE IF RLt(RInt(0), step)
           THEN NiceLoopInward(RMul(RInt(RCeil(RDiv(start, step))), step),
                               RMul(RInt(RFloor(RDiv(stop, step))), step),
                               step, maxIter - 1, orig)
           ELSE NiceLoopInward(RDiv(RInt(RCeil(RMul(start, step))), step),
                               RDiv(RInt(RFloor(RMul(stop, step))), step),
                               step, maxIter - 1, orig)

\* The loop of d3-scale's linear.nice(10) on start <= stop.  The result is
\* the original domain when the loop ends without a fixpoint.
RECURSIVE NiceLoop(_, _, _, _, _)
NiceLoop(start, stop, prestep, maxIter, orig) ==
  IF maxIter = 0 \/ start = stop THEN orig
  ELSE LET step == TickIncrement(start, stop, 10)
       IN  IF step = prestep THEN <<start, stop>>
           ELSE IF RLt(RInt(0), step)
           THEN NiceLoop(RMul(RInt(RFloor(RDiv(start, step))), step),
                         RMul(RInt(RCeil(RDiv(stop, step))), step),
                         step, maxIter - 1, orig)
           ELSE NiceLoop(RDiv(RInt(RCeil(RMul(start, step))), step),
                         RDiv(RInt(RFloor(RMul(stop, step))), step),
                         step, maxIter - 1, orig)

\* d3.scaleLinear().domain([lo, hi]).nice(): the niced domain <<d0, d1>>.
NiceDomain(dom) ==
  LET lo == RInt(dom.lo)
      hi == RInt(dom.hi)
  IN  IF dom.hi < dom.lo
      THEN LET r == NiceLoop(hi, lo, RInt(0), 10, <<hi, lo>>) IN <<r[2], r[1]>>
      ELSE NiceLoop(lo, hi, RInt(0), 10, <<lo, hi>>)

\* The scale with range([height, 0]) applied to v; a domain of zero extent
\* maps every value to the middle of the range.
LinearScale(nd, height, v) ==
  IF nd[1] = nd[2] THEN Rat(height, 2)
  ELSE LET t == RDiv(RSub(RInt(v), nd[1]), RSub(nd[2], nd[1]))
       IN  RSub(RInt(height), RMul(t, RInt(height)))

BarYScale(d, yd, height, v) ==
  LinearScale(NiceDomain(RawDomain(yd, BarDataMax(d))), height, v)

LineYScale(ss, yd, height, v) ==
  LinearScale(NiceDomain(RawDomain(yd, LineDataMax(ss))), height, v)

(***************************************************************************)
(* BarChart: the geometry and the opacity of the bar of datum d[i].        *)
(***************************************************************************)
BarX(d, width, p, i) == BandScale(BarLabels(d), width, p, d[i].label)

BarWidth(d, width, p) == Bandwidth(Len(Dedup(BarLabels(d))), width, p)

BarHeight(d, yd, height, i) ==
  LET by == BarYScale(d, yd, height, d[i].value)
      bh == RSub(RInt(height), by)
  IN  IF RLe(bh, RInt(0)) THEN RInt(0) ELSE bh

\* BarOpacityOf without the dimming of the bars that are not hovered.
BarOpacityNoDim(l, hl, op) ==
  IF hl = NoLabel THEN op
  ELSE IF l = hl THEN RInt(1)
  ELSE op

\* opacity={hoveredLabel === null ? barOpacity : isHovered ? 1 : barOpacity * 0.5}
BarOpacityOf(l, hl, op) ==
  IF hl = NoLabel THEN op
  ELSE IF l = hl THEN RInt(1)
  ELSE RMul(op, Rat(1, 2))

(***************************************************************************)
(* BarChart: what the tooltip render does.                                 *)
(***************************************************************************)
HasLabel(d, l) == \E i \in 1..Len(d) : d[i].label = l

\* The tooltip reading the first datum whatever the label.
FindFirstDatum(d, l) == IF Len(d) = 0 THEN Undefined ELSE d[1]

\* data.find(p => p.label === l): the first datum with the label.
FindByLabel(d, l) ==
  IF HasLabel(d, l)
  THEN d[CHOOSE i \in 1..Len(d) :
           d[i].label = l /\ \A j \in 1..(i - 1) : d[j].label # l]
  ELSE Undefined

\* data.find(p => p.label === hoveredLabel)! is dereferenced without a
\* check: the render throws a TypeError when no datum carries the label.
BarRenderThrows(d, st, hl) == st /\ hl # NoLabel /\ ~HasLabel(d, hl)

RenderThrows(k, d, st, hl) == k = "bar" /\ BarRenderThrows(d, st, hl)

(***************************************************************************)
(* The axes: an effect draws them with D3 after a render.                  *)
(***************************************************************************)
\* An absent optional number prop is <<>>, a supplied one is <<n>>.
NoInterval == <<>>

\* yTicks = 4 in the destructuring of the props.
DefaultYTicks == 4

BarTargetTicks == 8
LineTargetTicks == 6

\* Math.ceil(a / b) for a >= 0 and b > 0.
CeilDiv(a, b) == -((-a) \div b)

\* The interval with Math.floor in place of Math.ceil.
TickEveryFloor(k, xti, n) ==
  IF xti # NoInterval
  THEN xti[1]
  ELSE n \div (IF k = "bar" THEN BarTargetTicks ELSE LineTargetTicks)

\* every = xTickInterval ?? Math.ceil(n / target)
TickEvery(k, xti, n) ==
  IF xti # NoInterval
  THEN xti[1]
  ELSE CeilDiv(n, IF k = "bar" THEN BarTargetTicks ELSE LineTargetTicks)

\* i % every === 0 in JavaScript: i % 0 is NaN, which is not 0.
RemainderIsZero(i, every) == every # 0 /\ i % every = 0

\* ls.filter((_, i) => i % every === 0), from the 0-based index i on.
RECURSIVE FilterEvery(_, _, _)
FilterEvery(ls, every, i) ==
  IF i >= Len(ls)
  THEN <<>>
  ELSE (IF RemainderIsZero(i, every) THEN <<ls[i + 1]>> ELSE <<>>)
         \o FilterEvery(ls, every, i + 1)

\* The tickValues of the x axis.  BarChart filters the domain of the band
\* scale and divides data.length; LineChart filters and counts labels.
XTickValues(k, d, ss, xti) ==
  IF k = "bar"
  THEN FilterEvery(Dedup(BarLabels(d)), TickEvery(k, xti, Len(d)), 0)
  ELSE FilterEvery(LabelsOf(ss), TickEvery(k, xti, Len(LabelsOf(ss))), 0)

\* The niced domain of the y scale of chart k.
YScaleDomain(k, d, ss, yd) ==
  NiceDomain(RawDomain(yd, IF k = "bar" THEN BarDataMax(d) ELSE LineDataMax(ss)))

\* d3-array ticks(start, stop, count) as yScale.ticks(count) calls it on the
\* niced domain nd: no tick for count <= 0, the single value of a domain
\* without extent, otherwise every multiple of the tick step within the
\* domain, in the direction of the domain.
YTickValues(nd, count) ==
  IF count <= 0 THEN <<>>
  ELSE IF nd[1] = nd[2] THEN <<nd[1]>>
  ELSE LET lo == IF RLe(nd[1], nd[2]) THEN nd[1] ELSE nd[2]
           hi == IF RLe(nd[1], nd[2]) THEN nd[2] ELSE nd[1]
           inc == TickIncrement(lo, hi, count)
           step == IF RLt(RInt(0), inc) THEN inc ELSE RDiv(RInt(-1), inc)
           k0 == RCeil(RDiv(lo, step))
           k1 == RFloor(RDiv(hi, step))
           n == Max(k1 - k0 + 1, 0)
       IN  [i \in 1..n |->
              IF RLe(nd[1], nd[2])
              THEN RMul(RInt(k0 + i - 1), step)
              ELSE RMul(RInt(k1 - i + 1), step)]

\* What the axis groups show: the labels of the x ticks, and the length of
\* the grid lines of the y ticks (0: no y axis).  Both groups are empty
\* until the effect draws into them.
NoAxis == [x |-> <<>>, grid |-> 0]

\* The axis effect.  It returns early, leaving the groups as they are, when
\* iw <= 0; the inner height is not looked at.  Otherwise it redraws the x
\* ticks, and the y axis with its grid lines: tickSize(-iw).
AxisEffect(k, cw, d, ss, xti, old) ==
  IF k = "size" \/ InnerWidth(k, cw) <= 0
  THEN old
  ELSE [x |-> XTickValues(k, d, ss, xti), grid |-> InnerWidth(k, cw)]

(***************************************************************************)
(* The theme: { ...darkTheme, ...themeOverride }.                          *)
(***************************************************************************)
darkTheme ==
  [textColor |-> "#d9d9d9", mutedColor |-> "#8e8e8e",
   gridColor |-> "rgba(255,255,255,0.06)", tooltipBg |-> "#1e2029",
   tooltipBorder |-> "rgba(255,255,255,0.1)", panelBg |-> "#1b1c21"]

\* The spread with its operands swapped: { ...ov, ...base }.
SpreadBaseWins(base, ov) ==
  [t \in DOMAIN base \cup DOMAIN ov |->
     IF t \in DOMAIN base THEN base[t] ELSE ov[t]]

\* Object spread: the own keys of ov replace those of base.
Spread(base, ov) ==
  [t \in DOMAIN base \cup DOMAIN ov |->
     IF t \in DOMAIN ov THEN ov[t] ELSE base[t]]

theme == Spread(darkTheme, themeOverride)

\* No themeOverride prop: spreading undefined adds no key.
NoOverride == [t \in {} |-> Undefined]

\* The values an override gives a token: a colour of lightTheme, or a key
\* that is present with the value undefined.
OverrideValues == {"#ffffff", Undefined}

\* Partial<ChartTheme>: any subset of the tokens, each with a value.
ThemeOverrides ==
  UNION {[ts -> OverrideValues] : ts \in SUBSET DOMAIN darkTheme}

(***************************************************************************)
(* The LineChart tooltip.                                                  *)
(***************************************************************************)
TooltipOffsetRight == 12
TooltipOffsetLeft == 8

\* tipOnRight without MARGIN.left: crosshair.x <= w / 2.
TipOnRightNoMargin(ch, cw) ==
  IF ch # Null THEN RLe(ch.x, Rat(cw, 2)) ELSE TRUE

\* tipOnRight = crosshair ? crosshair.x + MARGIN.left <= w / 2 : true
TipOnRight(ch, cw) ==
  IF ch # Null
  THEN RLe(RAdd(ch.x, RInt(LineMarginLeft)), Rat(cw, 2))
  ELSE TRUE

\* cy of the crosshair dot of series s:
\* yScale(s.data[crosshair.idx]?.value ?? 0).
CrosshairDotY(ss, yd, height, s, ch) ==
  LineYScale(ss, yd, height, ValueAt(s, ch.idx))

\* The tooltip div is rendered: showTooltip && crosshair.
TooltipShown(st, ch) == st /\ ch # Null

\* left and transform of the style of the tooltip div.
TooltipStyle(ch, cw) ==
  IF TipOnRight(ch, cw)
  THEN [left |-> RAdd(RAdd(ch.x, RInt(LineMarginLeft)), RInt(TooltipOffsetRight)),
        transform |-> "none"]
  ELSE [left |-> RSub(RAdd(ch.x, RInt(LineMarginLeft)), RInt(TooltipOffsetLeft)),
        transform |-> "translateX(-100%)"]

(***************************************************************************)
(* Initial state: a freshly mounted chart, size not yet measured.          *)
(***************************************************************************)
YDomains == {Null, [lo |-> 0, hi |-> 100]}

\* barPadding, barOpacity and yDomain of a BarChart; the first is the
\* defaults.
BarConfigs ==
  {[padding |-> Rat(35, 100), opacity |-> Rat(8, 10), yDomain |-> Null],
   [padding |-> Rat(0, 1), opacity |-> Rat(1, 2), yDomain |-> [lo |-> 0, hi |-> 100]],
   [padding |-> Rat(1, 1), opacity |-> Rat(1, 1), yDomain |-> Null]}

Event(op, arg) == [op |-> op, arg |-> arg]

\* Everything but the theme.  A chart always renders the div its ref points
\* to, so its observer is observing; a host of useSize may pass a ref whose
\* element is absent, and then no observer is created.
InitChart ==
  /\ kind \in {"bar", "line", "size"}
  /\ w = 0
  /\ h = 0
  /\ data \in (IF kind = "bar" THEN DataPool ELSE {<<>>})
  /\ series \in (IF kind = "line" THEN SeriesPool ELSE {<<>>})
  /\ showTooltip \in (IF kind = "size" THEN {TRUE} ELSE BOOLEAN)
  /\ IF kind = "bar"
     THEN \E c \in BarConfigs :
            /\ barPadding = c.padding
            /\ barOpacity = c.opacity
            /\ yDomain = c.yDomain
     ELSE /\ barPadding = Rat(35, 100)
          /\ barOpacity = Rat(8, 10)
          /\ yDomain \in (IF kind = "size" THEN {Null} ELSE YDomains)
  /\ hoveredLabel = NoLabel
  /\ crosshair = Null
  /\ pointer = "out"
  /\ out = <<>>
  /\ crashed = FALSE
  /\ ev = Event("mount", 0)
  /\ xTickInterval = NoInterval
  /\ yTicks = DefaultYTicks
  /\ told = FALSE
  /\ axis = NoAxis
  /\ mounted = TRUE
  /\ observer \in (IF kind = "size" THEN {"observing", "none"} ELSE {"observing"})

Init == InitChart /\ themeOverride = NoOverride

(***************************************************************************)
(* LineChart handlers.                                                     *)
(***************************************************************************)
\* onMouseMove of the overlay rect; mx = e.clientX - rect.left.  The axis
\* effect of the re-render redraws the axes from unchanged inputs.
handleMouseMove(mx) ==
  /\ kind = "line"
  /\ mounted
  /\ ~crashed
  /\ iw > 0
  /\ ih > 0
  /\ mx \in 0..iw
  /\ pointer' = "plot"
  /\ ev' = Event("mouseMove", mx)
  /\ IF ~showTooltip
     THEN /\ out' = <<>>
          /\ UNCHANGED crosshair
     ELSE LET idx == HoverIndex(mx, Len(labels), iw)
          IN  /\ crosshair' = [x |-> PointScale(labels, iw, At(labels, idx)),
                               idx |-> idx]
              /\ out' = <<LineHoverInfo(series, idx)>>
  /\ told' = IF showTooltip THEN TRUE ELSE told
  /\ UNCHANGED <<yTicks,
                 kind, w, h, data, series, showTooltip, barPadding,
                 barOpacity, yDomain, hoveredLabel, crashed, xTickInterval,
                 themeOverride, axis, mounted, observer>>

\* handleMouseLeave without setCrosshair(null).
handleMouseLeaveKeepsCrosshair ==
  /\ kind = "line"
  /\ mounted
  /\ ~crashed
  /\ pointer = "plot"
  /\ pointer' = "out"
  /\ out' = <<Null>>
  /\ ev' = Event("mouseLeave", 0)
  /\ told' = FALSE
  /\ UNCHANGED <<yTicks,
                 kind, w, h, data, series, showTooltip, barPadding,
                 barOpacity, yDomain, hoveredLabel, crosshair, crashed,
                 xTickInterval, themeOverride, axis, mounted, observer>>

\* onMouseLeave of the overlay rect.
handleMouseLeave ==
  /\ kind = "line"
  /\ mounted
  /\ ~crashed
  /\ pointer = "plot"
  /\ pointer' = "out"
  /\ crosshair' = Null
  /\ out' = <<Null>>
  /\ ev' = Event("mouseLeave", 0)
  /\ told' = FALSE
  /\ UNCHANGED <<yTicks,
                 kind, w, h, data, series, showTooltip, barPadding,
                 barOpacity, yDomain, hoveredLabel, crashed, xTickInterval,
                 themeOverride, axis, mounted, observer>>

\* The host re-renders the LineChart with a new series prop.
SetSeries(ss) ==
  /\ kind = "line"
  /\ mounted
  /\ ~crashed
  /\ ss # series
  /\ series' = ss
  /\ out' = <<>>
  /\ ev' = Event("setSeries", 0)
  /\ axis' = AxisEffect(kind, w, data, ss, xTickInterval, axis)
  /\ UNCHANGED <<yTicks, told,
                 kind, w, h, data, showTooltip, barPadding, barOpacity,
                 yDomain, hoveredLabel, crosshair, pointer, crashed,
                 xTickInterval, themeOverride, mounted, observer>>

(***************************************************************************)
(* BarChart handlers.                                                      *)
(***************************************************************************)
\* The rect of datum i can receive pointer events: it has a positive area.
BarHasArea(i) ==
  /\ iw > 0
  /\ ih > 0
  /\ RLt(RInt(0), BarWidth(data, iw, barPadding))
  /\ RLt(RInt(0), BarHeight(data, yDomain, ih, i))

\* handleBarEnter that keeps the label of an earlier hover.
handleBarEnterKeepsFirst(i) ==
  /\ kind = "bar"
  /\ mounted
  /\ ~crashed
  /\ i \in 1..Len(data)
  /\ BarHasArea(i)
  /\ pointer # data[i].label
  /\ pointer' = data[i].label
  /\ hoveredLabel' = IF hoveredLabel = NoLabel THEN data[i].label ELSE hoveredLabel
  /\ out' = <<data[i]>>
  /\ ev' = Event("barEnter", i - 1)
  /\ crashed' = RenderThrows(kind, data, showTooltip, hoveredLabel')
  /\ told' = TRUE
  /\ UNCHANGED <<yTicks, kind, w, h, data, series, showTooltip, barPadding,
                 barOpacity, yDomain, crosshair, xTickInterval,
                 themeOverride, axis, mounted, observer>>

\* onMouseEnter of the rect of datum i.
handleBarEnter(i) ==
  /\ kind = "bar"
  /\ mounted
  /\ ~crashed
  /\ i \in 1..Len(data)
  /\ BarHasArea(i)
  /\ pointer # data[i].label
  /\ pointer' = data[i].label
  /\ hoveredLabel' = data[i].label
  /\ out' = <<data[i]>>
  /\ ev' = Event("barEnter", i - 1)
  /\ crashed' = RenderThrows(kind, data, showTooltip, hoveredLabel')
  /\ told' = TRUE
  /\ UNCHANGED <<yTicks,
                 kind, w, h, data, series, showTooltip, barPadding,
                 barOpacity, yDomain, crosshair, xTickInterval,
                 themeOverride, axis, mounted, observer>>

\* onMouseLeave of the rect the pointer is over.
handleBarLeave ==
  /\ kind = "bar"
  /\ mounted
  /\ ~crashed
  /\ pointer # "out"
  /\ pointer' = "out"
  /\ hoveredLabel' = NoLabel
  /\ out' = <<Null>>
  /\ ev' = Event("barLeave", 0)
  /\ crashed' = RenderThrows(kind, data, showTooltip, hoveredLabel')
  /\ told' = FALSE
  /\ UNCHANGED <<yTicks,
                 kind, w, h, data, series, showTooltip, barPadding,
                 barOpacity, yDomain, crosshair, xTickInterval,
                 themeOverride, axis, mounted, observer>>

\* The host re-renders the BarChart with a new data prop.  The rects are
\* keyed by label: a rect whose label is gone is removed without an event.
\* A render that throws runs no effect.
SetData(d) ==
  /\ kind = "bar"
  /\ mounted
  /\ ~crashed
  /\ d # data
  /\ data' = d
  /\ pointer' = IF HasLabel(d, pointer) THEN pointer ELSE "out"
  /\ out' = <<>>
  /\ ev' = Event("setData", 0)
  /\ crashed' = RenderThrows(kind, d, showTooltip, hoveredLabel)
  /\ axis' = IF crashed'
             THEN axis
             ELSE AxisEffect(kind, w, d, series, xTickInterval, axis)
  /\ UNCHANGED <<yTicks, told,
                 kind, w, h, series, showTooltip, barPadding, barOpacity,
                 yDomain, hoveredLabel, crosshair, xTickInterval,
                 themeOverride, mounted, observer>>

(***************************************************************************)
(* Both charts.                                                            *)
(***************************************************************************)
\* The host re-renders the chart with another showTooltip prop.
SetShowTooltip(b) ==
  /\ kind # "size"
  /\ mounted
  /\ ~crashed
  /\ b # showTooltip
  /\ showTooltip' = b
  /\ out' = <<>>
  /\ ev' = Event("setShowTooltip", 0)
  /\ crashed' = RenderThrows(kind, data, b, hoveredLabel)
  /\ UNCHANGED <<yTicks, told,
                 kind, w, h, data, series, barPadding, barOpacity, yDomain,
                 hoveredLabel, crosshair, pointer, xTickInterval,
                 themeOverride, axis, mounted, observer>>

\* The host re-renders the chart with another xTickInterval prop.
SetXTickInterval(xti) ==
  /\ kind # "size"
  /\ mounted
  /\ ~crashed
  /\ xti # xTickInterval
  /\ xTickInterval' = xti
  /\ out' = <<>>
  /\ ev' = Event("setXTickInterval", 0)
  /\ axis' = AxisEffect(kind, w, data, series, xti, axis)
  /\ UNCHANGED <<yTicks, told,
                 kind, w, h, data, series, showTooltip, barPadding,
                 barOpacity, yDomain, hoveredLabel, crosshair, pointer,
                 crashed, themeOverride, mounted, observer>>

\* The host re-renders the chart with another yDomain prop.
SetYDomain(yd) ==
  /\ kind # "size"
  /\ mounted
  /\ ~crashed
  /\ yd # yDomain
  /\ yDomain' = yd
  /\ out' = <<>>
  /\ ev' = Event("setYDomain", 0)
  /\ axis' = AxisEffect(kind, w, data, series, xTickInterval, axis)
  /\ UNCHANGED <<yTicks, told,
                 kind, w, h, data, series, showTooltip, barPadding,
                 barOpacity, hoveredLabel, crosshair, pointer, crashed,
                 xTickInterval, themeOverride, mounted, observer>>

\* The host re-renders the chart with another yTicks prop.
SetYTicks(n) ==
  /\ kind # "size"
  /\ mounted
  /\ ~crashed
  /\ n # yTicks
  /\ yTicks' = n
  /\ out' = <<>>
  /\ ev' = Event("setYTicks", 0)
  /\ axis' = AxisEffect(kind, w, data, series, xTickInterval, axis)
  /\ UNCHANGED <<kind, w, h, data, series, showTooltip, barPadding,
                 barOpacity, yDomain, hoveredLabel, crosshair, pointer,
                 crashed, xTickInterval, themeOverride, mounted, observer,
                 told>>

\* The host re-renders the chart with another theme prop.
SetTheme(ov) ==
  /\ kind # "size"
  /\ mounted
  /\ ~crashed
  /\ ov # themeOverride
  /\ themeOverride' = ov
  /\ out' = <<>>
  /\ ev' = Event("setTheme", 0)
  /\ axis' = AxisEffect(kind, w, data, series, xTickInterval, axis)
  /\ UNCHANGED <<yTicks, told,
                 kind, w, h, data, series, showTooltip, barPadding,
                 barOpacity, yDomain, hoveredLabel, crosshair, pointer,
                 crashed, xTickInterval, mounted, observer>>

(***************************************************************************)
(* useSize.                                                                *)
(***************************************************************************)
\* The callback with width and height exchanged.
SizeOfSwapped(cw, ch) == [w |-> ch, h |-> cw]

\* const { width, height } = entry.contentRect; the new size state is
\* { w: width, h: height }.
SizeOf(cw, ch) == [w |-> cw, h |-> ch]

\* The ResizeObserver callback for an entry with contentRect <<cw, ch>>:
\* setSize, then the re-render and its axis effect.
Resize(cw, ch) ==
  /\ observer = "observing"
  /\ ~crashed
  /\ <<cw, ch>> # <<w, h>>
  /\ w' = SizeOf(cw, ch).w
  /\ h' = SizeOf(cw, ch).h
  /\ out' = <<>>
  /\ ev' = Event("resize", <<cw, ch>>)
  /\ crashed' = RenderThrows(kind, data, showTooltip, hoveredLabel)
  /\ axis' = IF crashed'
             THEN axis
             ELSE AxisEffect(kind, w', data, series, xTickInterval, axis)
  /\ UNCHANGED <<yTicks, told,
                 kind, data, series, showTooltip, barPadding, barOpacity,
                 yDomain, hoveredLabel, crosshair, pointer, xTickInterval,
                 themeOverride, mounted, observer>>

\* An unmount whose effect cleanup does not call ro.disconnect().
UnmountKeepsObserving ==
  /\ mounted
  /\ ~crashed
  /\ mounted' = FALSE
  /\ hoveredLabel' = NoLabel
  /\ crosshair' = Null
  /\ pointer' = "out"
  /\ out' = <<>>
  /\ axis' = NoAxis
  /\ ev' = Event("unmount", 0)
  /\ UNCHANGED <<yTicks, told,
                 kind, w, h, data, series, showTooltip, barPadding,
                 barOpacity, yDomain, crashed, xTickInterval, themeOverride,
                 observer>>

\* The component unmounts: the cleanup of the useSize effect disconnects
\* the observer (there is none to disconnect when the effect returned
\* early), the component state is discarded and its DOM is removed.
Unmount ==
  /\ mounted
  /\ ~crashed
  /\ mounted' = FALSE
  /\ observer' = IF observer = "observing" THEN "disconnected" ELSE observer
  /\ hoveredLabel' = NoLabel
  /\ crosshair' = Null
  /\ pointer' = "out"
  /\ out' = <<>>
  /\ axis' = NoAxis
  /\ ev' = Event("unmount", 0)
  /\ UNCHANGED <<yTicks, told,
                 kind, w, h, data, series, showTooltip, barPadding,
                 barOpacity, yDomain, crashed, xTickInterval, themeOverride>>

\* The observed element changes size after ro.disconnect(): a disconnected
\* observer delivers nothing, the callback does not run.
LateResize(cw, ch) ==
  /\ observer = "disconnected"
  /\ ev' = Event("lateResize", <<cw, ch>>)
  /\ UNCHANGED <<yTicks, told,
                 kind, w, h, data, series, showTooltip, barPadding,
                 barOpacity, yDomain, hoveredLabel, crosshair, pointer, out,
                 crashed, xTickInterval, themeOverride, axis, mounted,
                 observer>>

MaxWidth == CHOOSE m \in {sz[1] : sz \in Sizes} : \A sz \in Sizes : sz[1] <= m

Next ==
  \/ \E mx \in 0..MaxWidth : handleMouseMove(mx)
  \/ handleMouseLeave
  \/ \E ss \in SeriesPool : SetSeries(ss)
  \/ \E i \in 1..(MaxLen + 1) : handleBarEnter(i)
  \/ handleBarLeave
  \/ \E d \in DataPool : SetData(d)
  \/ \E b \in BOOLEAN : SetShowTooltip(b)
  \/ \E sz \in Sizes : Resize(sz[1], sz[2])
  \/ Unmount
  \/ \E sz \in Sizes : LateResize(sz[1], sz[2])

Spec == Init /\ [][Next]_vars

TypeOK ==
  /\ kind \in {"bar", "line", "size"}
  /\ w \in Nat
  /\ h \in Nat
  /\ crashed \in BOOLEAN
  /\ mounted \in BOOLEAN
  /\ observer \in {"none", "observing", "disconnected"}
  /\ told \in BOOLEAN
  /\ yTicks \in Nat
  /\ Len(out) <= 1

(***************************************************************************)
(* The axes and scales under long label lists, tick intervals and y        *)
(* domains; the container is measured once and stays wide.                 *)
(***************************************************************************)
LongData(k) == MkData(k, "mixed", 0)

LongSeries(k) == <<[key |-> SeriesKeys[1], data |-> LongData(k)]>>

XTickIntervals == {NoInterval, <<0>>, <<1>>, <<2>>, <<3>>}

DomainEnds == {-47, 0, 1, 47, 100}

ScaleYDomains == {Null} \cup {[lo |-> a, hi |-> b] : a, b \in DomainEnds}

ScaleSizes == {<<68, 100>>, <<80, 100>>}

InitScales ==
  /\ InitChart
  /\ kind \in {"bar", "line"}
  /\ data = <<>>
  /\ series = <<>>
  /\ showTooltip
  /\ barPadding = Rat(35, 100)
  /\ yDomain = Null
  /\ themeOverride = NoOverride

NextScales ==
  \/ \E k \in 0..MaxTickLen : SetData(LongData(k))
  \/ \E k \in 0..MaxTickLen : SetSeries(LongSeries(k))
  \/ \E xti \in XTickIntervals : SetXTickInterval(xti)
  \/ \E yd \in ScaleYDomains : SetYDomain(yd)
  \/ \E sz \in ScaleSizes : Resize(sz[1], sz[2])

SpecScales == InitScales /\ [][NextScales]_vars

(***************************************************************************)
(* The y axis under tick counts, data sets and y domains.                  *)
(***************************************************************************)
YTickCounts == {1, 4, 5, 10}

NextYAxis ==
  \/ \E k \in 0..MaxTickLen : SetData(LongData(k))
  \/ \E k \in 0..MaxTickLen : SetSeries(LongSeries(k))
  \/ \E n \in YTickCounts : SetYTicks(n)
  \/ \E yd \in ScaleYDomains : SetYDomain(yd)
  \/ \E sz \in ScaleSizes : Resize(sz[1], sz[2])

SpecYAxis == InitScales /\ [][NextYAxis]_vars

(***************************************************************************)
(* The LineChart tooltip in containers wide enough for both placements.    *)
(***************************************************************************)
WideSizes == {<<80, 100>>, <<120, 100>>}

MaxWideWidth == CHOOSE m \in {sz[1] : sz \in WideSizes} : \A sz \in WideSizes : sz[1] <= m

InitTooltip ==
  /\ InitChart
  /\ kind = "line"
  /\ series = <<>>
  /\ showTooltip
  /\ yDomain = Null
  /\ themeOverride = NoOverride

NextTooltip ==
  \/ \E mx \in 0..MaxWideWidth : handleMouseMove(mx)
  \/ handleMouseLeave
  \/ \E k \in 0..MaxTickLen : SetSeries(LongSeries(k))
  \/ \E sz \in WideSizes : Resize(sz[1], sz[2])

SpecTooltip == InitTooltip /\ [][NextTooltip]_vars

(***************************************************************************)
(* The theme prop.                                                         *)
(***************************************************************************)
InitTheme ==
  /\ InitChart
  /\ kind \in {"bar", "line"}
  /\ data = <<>>
  /\ series = <<>>
  /\ showTooltip
  /\ barPadding = Rat(35, 100)
  /\ yDomain = Null
  /\ themeOverride \in ThemeOverrides

NextTheme == \E ov \in ThemeOverrides : SetTheme(ov)

SpecTheme == InitTheme /\ [][NextTheme]_vars

(***************************************************************************)
(* Properties of the LineChart hover resolution.                           *)
(***************************************************************************)
\* The last event was a pointer move that resolved a hover.
Resolved == kind = "line" /\ ev.op = "mouseMove" /\ showTooltip

\* The nearest integer to mx / step, a tie going up, for
\* step = width / max(n - 1, 1): the r with r - 1/2 <= mx / step < r + 1/2.
NearestHalfUp(mx, n, width) ==
  LET d == Max(n - 1, 1)
  IN  CHOOSE r \in 0..(d + 1) :
        /\ (2 * r - 1) * width <= 2 * mx * d
        /\ 2 * mx * d < (2 * r + 1) * width

\* C1: after a pointer move at offset mx over a LineChart with n >= 1
\* labels and inner width iw > 0, the resolved index is round-half-up of
\* mx / step clamped to [0, n - 1]; at the exact midpoint between the
\* indices i and i + 1 it is i + 1.
C1_HoverIndexIsRoundHalfUp ==
  (Resolved /\ Len(labels) >= 1) =>
    LET n == Len(labels)
        mx == ev.arg
        r == NearestHalfUp(mx, n, iw)
    IN  /\ crosshair # Null
        /\ crosshair.idx = Max(0, Min(r, n - 1))
        /\ \A i \in 0..(n - 2) :
             2 * mx * (n - 1) = (2 * i + 1) * iw => crosshair.idx = i + 1

\* A move at the exact midpoint between the indices 1 and 2 of three labels.
C1_Witness ==
  /\ Resolved
  /\ Len(labels) = 3
  /\ 4 * ev.arg = 3 * iw
  /\ crosshair # Null
  /\ crosshair.idx = 2

\* C2: on a LineChart whose series list is empty or whose first series has
\* no data point, a pointer move leaves the hover state none and delivers
\* no populated payload to onHover.
C2_EmptyDataReportsNoHover ==
  (kind = "line" /\ ev.op = "mouseMove" /\ Len(labels) = 0) =>
    /\ crosshair = Null
    /\ \A i \in 1..Len(out) : out[i] = Null

\* Every series has the label sequence of the first one.
Aligned(ss) ==
  \A s \in 1..Len(ss) :
    [i \in 1..Len(ss[s].data) |-> ss[s].data[i].label] = LabelsOf(ss)

\* C6: when all series share one label sequence, the payload delivered for
\* the resolved index i carries the i-th label and a values map with
\* exactly one entry per series key, the value of that series at index i.
C6_HoverPayload ==
  (Resolved /\ Aligned(series) /\ Len(labels) >= 1) =>
    /\ Len(out) = 1
    /\ out[1] # Null
    /\ LET i == out[1].index
       IN  /\ i = crosshair.idx
           /\ out[1].label = labels[i + 1]
           /\ DOMAIN out[1].values = {series[s].key : s \in 1..Len(series)}
           /\ \A s \in 1..Len(series) :
                out[1].values[series[s].key] = series[s].data[i + 1].value

\* Two aligned series with different values at the hovered index 1.
C6_Witness ==
  /\ Resolved
  /\ Len(series) = 2
  /\ Aligned(series)
  /\ Len(out) = 1
  /\ out[1] # Null
  /\ out[1].index = 1
  /\ out[1].label = "L2"
  /\ out[1].values = [k \in {"TTFB", "FCP"} |-> IF k = "TTFB" THEN 47 ELSE 0]

\* C7: for n >= 1 labels and inner width iw > 0, a move at offset 0
\* resolves index 0, a move at offset iw resolves index n - 1, and no
\* smaller offset resolves a larger index.
C7_HoverEndpoints ==
  (Resolved /\ Len(labels) >= 1) =>
    LET n == Len(labels)
    IN  /\ crosshair # Null
        /\ ev.arg = 0 => crosshair.idx = 0
        /\ ev.arg = iw => crosshair.idx = n - 1
        /\ \A m \in 0..ev.arg : HoverIndex(m, n, iw) <= crosshair.idx

\* A move at the right edge of a single-label chart.
C7_Witness ==
  /\ Resolved
  /\ Len(labels) = 1
  /\ ev.arg = iw
  /\ crosshair # Null
  /\ crosshair.idx = 0

(***************************************************************************)
(* Properties of rendering and of the hover callbacks.                     *)
(***************************************************************************)
\* C3: under every sequence of prop changes, resizes and pointer events on
\* a BarChart or a LineChart, no render throws.
C3_RenderNeverThrows == ~crashed

\* C4: after a pointer-leave event the hover state of the chart is none
\* and the handler has delivered null to onHover exactly once.
C4_HoverClearsOnLeave ==
  /\ ev.op = "mouseLeave" => (crosshair = Null /\ out = <<Null>>)
  /\ ev.op = "barLeave" => (hoveredLabel = NoLabel /\ out = <<Null>>)

\* The pointer has left a LineChart that resolves hovers.
C4_Witness ==
  /\ kind = "line"
  /\ ev.op = "mouseLeave"
  /\ showTooltip
  /\ Len(labels) >= 2
  /\ crosshair = Null
  /\ out = <<Null>>

\* C5: whatever the props of a LineChart, a pointer move over the plot
\* delivers one populated payload to onHover and a pointer leave delivers
\* null.
C5_OnHoverFiresOnMove ==
  kind = "line" =>
    /\ ev.op = "mouseMove" => (Len(out) = 1 /\ out[1] # Null)
    /\ ev.op = "mouseLeave" => out = <<Null>>

(***************************************************************************)
(* Properties of the BarChart render.                                      *)
(***************************************************************************)
\* C8: every bar is drawn at barOpacity when nothing is hovered, at 1 when
\* its label is the hovered label, and at barOpacity * 0.5 otherwise.
C8_BarHighlightRule ==
  (kind = "bar" /\ ~crashed) =>
    \A j \in 1..Len(data) :
      LET o == BarOpacityOf(data[j].label, hoveredLabel, barOpacity)
      IN  /\ hoveredLabel = NoLabel => o = barOpacity
          /\ (hoveredLabel # NoLabel /\ data[j].label = hoveredLabel) => o = <<1, 1>>
          /\ (hoveredLabel # NoLabel /\ data[j].label # hoveredLabel) =>
               o = RMul(barOpacity, Rat(1, 2))

\* Bar L2 of three is hovered at the default opacity 0.8: it is drawn at 1
\* and its neighbours at 0.4.
C8_Witness ==
  /\ kind = "bar"
  /\ ~crashed
  /\ ev.op = "barEnter"
  /\ Len(data) = 3
  /\ hoveredLabel = "L2"
  /\ barOpacity = <<4, 5>>
  /\ BarOpacityOf("L2", hoveredLabel, barOpacity) = <<1, 1>>
  /\ BarOpacityOf("L1", hoveredLabel, barOpacity) = <<2, 5>>

\* The values the y scale of the mounted chart is computed from.
ChartValues == IF kind = "bar" THEN BarValues(data) ELSE FlatValues(series)

ChartDataMax == IF kind = "bar" THEN BarDataMax(data) ELSE LineDataMax(series)

\* C9: when yDomain is omitted the raw y-domain is [0, max of all values],
\* the max of an empty and of an all-zero data set being 1, and the domain
\* of the linear scale has a non-zero extent.
C9_DefaultDomainNeverDegenerate ==
  yDomain = Null =>
    LET vs == ChartValues
        expected == IF \A i \in 1..Len(vs) : vs[i] = 0 THEN 1 ELSE SeqMax(vs)
        raw == RawDomain(yDomain, ChartDataMax)
        nd == NiceDomain(raw)
    IN  /\ raw = [lo |-> 0, hi |-> expected]
        /\ nd[1] # nd[2]

\* The number of distinct labels of the BarChart data.
BandCount == Len(Dedup(BarLabels(data)))

\* C10 as stated: for n >= 1 distinct labels, inner width W and padding p,
\* every bar is W / n * (1 - p) wide.
C10_BandWidthIsEvenSplit ==
  (kind = "bar" /\ BandCount >= 1) =>
    BarWidth(data, iw, barPadding) =
      RMul(Rat(iw, BandCount), RSub(RInt(1), barPadding))

\* C10 amended: for n >= 1 distinct labels, inner width W and padding p in
\* [0, 1], every bar is W / (n + p) * (1 - p) wide.
C10_BandWidthWithOuterPadding ==
  (kind = "bar" /\ BandCount >= 1) =>
    BarWidth(data, iw, barPadding) =
      RMul(RDiv(RInt(iw), RAdd(RInt(BandCount), barPadding)),
           RSub(RInt(1), barPadding))

\* Three bars at the default padding 0.35 in an inner width of 20:
\* 20 / 3.35 * 0.65 = 260 / 67.
C10_Witness ==
  /\ kind = "bar"
  /\ Len(data) = 3
  /\ barPadding = <<7, 20>>
  /\ iw = 20
  /\ BarWidth(data, iw, barPadding) = <<260, 67>>

(***************************************************************************)
(* Properties of the band scale and of the point scale.                    *)
(***************************************************************************)
\* The bars of the datums i and j do not overlap.
BarsDisjoint(i, j) ==
  LET bw == BarWidth(data, iw, barPadding)
      xi == BarX(data, iw, barPadding, i)
      xj == BarX(data, iw, barPadding, j)
  IN  RLe(RAdd(xi, bw), xj) \/ RLe(RAdd(xj, bw), xi)

\* The bars lie in [0, iw], no two of them overlap, and the n band widths,
\* the n - 1 inner gaps and the two outer gaps add up to iw.
BandsCoverWidth ==
  LET n == Len(data)
      bw == BarWidth(data, iw, barPadding)
      x1 == BarX(data, iw, barPadding, 1)
      gap == IF n >= 2
             THEN RSub(RSub(BarX(data, iw, barPadding, 2), x1), bw)
             ELSE RInt(0)
  IN  /\ \A i, j \in 1..n : i < j => BarsDisjoint(i, j)
      /\ \A i \in 1..n :
           /\ RLe(RInt(0), BarX(data, iw, barPadding, i))
           /\ RLe(RAdd(BarX(data, iw, barPadding, i), bw), RInt(iw))
      /\ RLe(RInt(0), gap)
      /\ RAdd(RAdd(RMul(RInt(n), bw), RMul(RInt(n - 1), gap)), RMul(RInt(2), x1))
           = RInt(iw)

DistinctLabels(d) == Len(Dedup(BarLabels(d))) = Len(d)

CrosshairAtLabel ==
  (Resolved /\ Len(labels) >= 1) =>
    /\ crosshair # Null
    /\ crosshair.x = PointScale(labels, iw, labels[crosshair.idx + 1])

\* C12 as stated: n > 1 labels are placed at i * W / (n - 1), a single
\* label at position 0, and the crosshair x stored on hover is that
\* position.
C12_SinglePointAtZero ==
  kind = "line" =>
    LET n == Len(labels)
    IN  /\ n > 1 => \A i \in 0..(n - 1) :
                      PointScale(labels, iw, labels[i + 1]) = Rat(i * iw, n - 1)
        /\ n = 1 => PointScale(labels, iw, labels[1]) = RInt(0)
        /\ CrosshairAtLabel

\* C12 amended: n > 1 labels are placed at i * W / (n - 1), a single label
\* at the centre W / 2, and the crosshair x stored on hover is that
\* position.
C12_SinglePointAtCentre ==
  kind = "line" =>
    LET n == Len(labels)
    IN  /\ n > 1 => \A i \in 0..(n - 1) :
                      PointScale(labels, iw, labels[i + 1]) = Rat(i * iw, n - 1)
        /\ n = 1 => PointScale(labels, iw, labels[1]) = Rat(iw, 2)
        /\ CrosshairAtLabel

\* A hover on the only label of a chart of inner width 12.
C12_Witness ==
  /\ Resolved
  /\ Len(labels) = 1
  /\ iw = 12
  /\ crosshair # Null
  /\ crosshair.x = <<6, 1>>

(***************************************************************************)
(* Properties of the x axis ticks.                                         *)
(***************************************************************************)
\* The chart is mounted, has rendered, and its container is wide enough for
\* the axis effect to draw.
AxisDrawn == kind # "size" /\ mounted /\ ~crashed /\ iw > 0

\* The label of every datum, in data order.
ChartLabels == IF kind = "bar" THEN BarLabels(data) ELSE labels

\* The least integer c with c * target >= n.
CeilOfQuotient(n, target) ==
  CHOOSE c \in 0..n : c * target >= n /\ (c - 1) * target < n

\* The interval the rule prescribes.
RuleInterval ==
  IF xTickInterval # NoInterval
  THEN xTickInterval[1]
  ELSE CeilOfQuotient(Len(ChartLabels), IF kind = "bar" THEN 8 ELSE 6)

C14_FirstLabelShown ==
  (AxisDrawn /\ Len(ChartLabels) > 0) =>
    (Len(axis.x) > 0 /\ axis.x[1] = ChartLabels[1])

(***************************************************************************)
(* Properties of the LineChart tooltip.                                    *)
(***************************************************************************)
\* C15: while the LineChart tooltip is shown, with anchor = crosshair x +
\* left margin (the x-position of the hovered point in the container) and
\* the midpoint at half the container width w: when anchor <= w / 2 the
\* tooltip is at left = anchor + 12 with no translation, otherwise it is
\* at left = anchor - 8 with translateX(-100%); and a point at or beyond
\* 0.9 of the inner width is always placed leftward.
C15_TooltipFlip ==
  (kind = "line" /\ mounted /\ TooltipShown(showTooltip, crosshair)) =>
    LET anchor == RAdd(crosshair.x, RInt(40))
        style == TooltipStyle(crosshair, w)
        leftward == style.transform = "translateX(-100%)"
    IN  /\ RLe(RMul(anchor, RInt(2)), RInt(w)) =>
              (style.left = RAdd(anchor, RInt(12)) /\ style.transform = "none")
        /\ RLt(RInt(w), RMul(anchor, RInt(2))) =>
              (style.left = RSub(anchor, RInt(8)) /\ leftward)
        /\ RLe(Rat(9 * iw, 10), crosshair.x) => leftward

\* Five labels in a 120 px wide container: hovering the second label
\* (x = 16, anchor 56 < 60) puts the tooltip on the right at left = 68.
C15_Witness ==
  /\ Resolved
  /\ w = 120
  /\ Len(labels) = 5
  /\ crosshair.x = <<16, 1>>
  /\ TooltipStyle(crosshair, w) = [left |-> <<68, 1>>, transform |-> "none"]

(***************************************************************************)
(* Properties of a chart in a container without area.                      *)
(***************************************************************************)
\* C16: whenever the container of a mounted chart has width <= 0 or
\* height <= 0, nothing is drawn or left on screen (no x tick, no y axis
\* or grid line, no bar with an area) and no render has thrown.
C16_ZeroSizeDrawsNothing ==
  (kind # "size" /\ mounted /\ (w <= 0 \/ h <= 0)) =>
    /\ axis = NoAxis
    /\ kind = "bar" => \A i \in 1..Len(data) : ~BarHasArea(i)
    /\ ~crashed

(***************************************************************************)
(* Properties of the niced y domain.                                       *)
(***************************************************************************)
\* The raw y domain of the chart.
ChartRawDomain == RawDomain(yDomain, ChartDataMax)

\* The domain the y scale uses.
ChartNiceDomain == YScaleDomain(kind, data, series, yDomain)

\* C17 as stated: for every raw y domain [lo, hi], default or supplied,
\* the niced domain [lo', hi'] has lo' <= lo and hi' >= hi, and [0, 47]
\* nices to [0, 50].
C17_NicedEndsOutward ==
  (kind # "size" /\ mounted) =>
    /\ RLe(ChartNiceDomain[1], RInt(ChartRawDomain.lo))
    /\ RLe(RInt(ChartRawDomain.hi), ChartNiceDomain[2])
    /\ ChartRawDomain = [lo |-> 0, hi |-> 47] =>
          ChartNiceDomain = <<RInt(0), RInt(50)>>

\* C17 amended: the niced domain contains the raw domain as an interval,
\* min(lo', hi') <= min(lo, hi) and max(lo', hi') >= max(lo, hi), it keeps
\* the direction of a raw domain with lo > hi, and [0, 47] nices to
\* [0, 50].
C17_NicedContainsRaw ==
  (kind # "size" /\ mounted) =>
    LET lo == RInt(ChartRawDomain.lo)
        hi == RInt(ChartRawDomain.hi)
        nlo == ChartNiceDomain[1]
        nhi == ChartNiceDomain[2]
    IN  /\ IF RLe(lo, hi)
           THEN RLe(nlo, lo) /\ RLe(hi, nhi)
           ELSE RLe(nhi, hi) /\ RLe(lo, nlo)
        /\ ChartRawDomain = [lo |-> 0, hi |-> 47] =>
              ChartNiceDomain = <<RInt(0), RInt(50)>>

\* The default domain of data with maximum 47 is drawn as [0, 50].
C17_Witness ==
  /\ AxisDrawn
  /\ yDomain = Null
  /\ ChartDataMax = 47
  /\ ChartNiceDomain = <<RInt(0), RInt(50)>>

(***************************************************************************)
(* Properties of useSize.                                                  *)
(***************************************************************************)
\* C18: the size is {0, 0} at creation; a step changes it only when it is
\* a resize notification, and after a notification it is exactly the
\* content-box size notified, so that it is {0, 0} until the first
\* notification and the size of the most recent one afterwards; with no
\* element to observe it is {0, 0} for ever.
C18_SizeIsLatestNotification ==
  /\ [](ev.op = "mount" => (w = 0 /\ h = 0))
  /\ [](observer = "none" => (w = 0 /\ h = 0))
  /\ [][IF ev'.op = "resize"
        THEN <<w', h'>> = ev'.arg
        ELSE w' = w /\ h' = h]_vars

\* A notification of 0 x 0 after one of another size: the size goes back
\* to {0, 0}.
C18_Witness ==
  /\ ev.op = "resize"
  /\ ev.arg = <<0, 0>>
  /\ w = 0
  /\ h = 0

\* C19: an unmounted chart has no observing observer, and no step taken
\* after the unmount (a late resize notification among them) changes the
\* size or makes a render throw.
C19_TeardownReleasesObserver ==
  /\ [](~mounted => observer # "observing")
  /\ [][~mounted => (w' = w /\ h' = h /\ crashed' = crashed /\ ~mounted')]_vars

\* The element got another size after the unmount and the size did not
\* follow.
C19_Witness ==
  /\ ~mounted
  /\ ev.op = "lateResize"
  /\ ev.arg # <<w, h>>
  /\ observer = "disconnected"

(***************************************************************************)
(* Properties of the theme.                                                *)
(***************************************************************************)
\* C20: the theme of a mounted chart has the tokens of the dark theme;
\* every token present in the override has the override's value, every
\* other token the value of the dark theme.
C20_ThemeMerge ==
  (kind # "size" /\ mounted) =>
    /\ DOMAIN theme = DOMAIN darkTheme
    /\ \A t \in DOMAIN themeOverride : theme[t] = themeOverride[t]
    /\ \A t \in DOMAIN darkTheme \ DOMAIN themeOverride : theme[t] = darkTheme[t]

\* An override of tooltipBg alone, passed in a re-render.
C20_Witness ==
  /\ ev.op = "setTheme"
  /\ DOMAIN themeOverride = {"tooltipBg"}
  /\ theme["tooltipBg"] = "#ffffff"
  /\ theme["textColor"] = "#d9d9d9"

(***************************************************************************)
(* Properties of the y axis.                                               *)
(***************************************************************************)
\* The values of the y ticks the axis effect draws for the current inputs.
ChartYTicks == YTickValues(ChartNiceDomain, yTicks)

\* C21: whenever the axes are drawn, the y axis has exactly yTicks ticks,
\* consecutive ticks are the same distance apart, and every grid line is
\* as long as the inner width.
C21_YTickCount ==
  AxisDrawn =>
    /\ Len(ChartYTicks) = yTicks
    /\ \A i \in 2..(Len(ChartYTicks) - 1) :
          RSub(ChartYTicks[i + 1], ChartYTicks[i])
            = RSub(ChartYTicks[i], ChartYTicks[i - 1])
    /\ axis.grid = iw

(***************************************************************************)
(* Properties of the hover state.                                          *)
(***************************************************************************)
\* C22: whatever events came before, right after a pointer move on a
\* LineChart the crosshair is the index and the x position resolved from
\* that move alone, and right after a bar enter on a BarChart hoveredLabel
\* is the label of the bar entered; the state holds that one value only.
C22_HoverIsLatestValue ==
  /\ Resolved =>
        LET i == HoverIndex(ev.arg, Len(labels), iw)
        IN  crosshair = [x |-> PointScale(labels, iw, At(labels, i)), idx |-> i]
  /\ (kind = "bar" /\ ev.op = "barEnter") =>
        /\ ev.arg + 1 \in 1..Len(data)
        /\ hoveredLabel = data[ev.arg + 1].label

\* The pointer has entered the second of three bars.
C22_Witness ==
  /\ kind = "bar"
  /\ ev.op = "barEnter"
  /\ ev.arg = 1
  /\ Len(data) = 3
  /\ hoveredLabel = "L2"

\* C23: right after a pointer move, for every series that has no datum at
\* the resolved index, the payload has an entry for the key of the series
\* with the value 0, the crosshair dot of the series is at the pixel row
\* of the value 0, and no render has thrown.
C23_ShortSeriesReadAsZero ==
  Resolved =>
    \A s \in 1..Len(series) :
      crosshair.idx >= Len(series[s].data) =>
        /\ Len(out) = 1
        /\ series[s].key \in DOMAIN out[1].values
        /\ out[1].values[series[s].key] = 0
        /\ CrosshairDotY(series, yDomain, ih, series[s], crosshair)
             = LineYScale(series, yDomain, ih, 0)
        /\ ~crashed

\* The last of three labels is hovered and the second series has two
\* datums, the last with a value other than 0.
C23_Witness ==
  /\ Resolved
  /\ Len(series) = 2
  /\ Len(labels) = 3
  /\ Len(series[2].data) = 2
  /\ series[2].data[2].value # 0
  /\ crosshair.idx = 2
  /\ out[1].values[series[2].key] = 0

\* The crosshair line and the dots of the series are rendered: crosshair &&.
CrosshairShown == crosshair # Null

\* C24: in every state of a mounted BarChart, hoveredLabel is null or the
\* label of a datum of the current data.
C24_HoveredLabelInData ==
  (kind = "bar" /\ mounted) =>
    (hoveredLabel = NoLabel \/ HasLabel(data, hoveredLabel))

\* C25: in every state of a mounted LineChart, crosshair is null or its
\* idx is an index of the current label sequence.
C25_CrosshairIndexInRange ==
  (kind = "line" /\ mounted /\ crosshair # Null) =>
    (0 <= crosshair.idx /\ crosshair.idx <= Len(labels) - 1)

\* C26: in every state of a mounted LineChart with a crosshair, crosshair.x
\* is the position the current x scale gives the label at crosshair.idx.
C26_CrosshairAtCurrentScale ==
  (kind = "line" /\ mounted /\ crosshair # Null) =>
    crosshair.x = PointScale(labels, iw, At(labels, crosshair.idx))

\* C27: in every state of a mounted LineChart with showTooltip = false,
\* neither the crosshair line and dots nor the tooltip are rendered.
C27_NoOverlayWithoutTooltip ==
  (kind = "line" /\ mounted /\ ~showTooltip) =>
    (~CrosshairShown /\ ~TooltipShown(showTooltip, crosshair))

(***************************************************************************)
(* Properties of the BarChart tooltip.                                     *)
(***************************************************************************)
\* Right after the pointer entered the bar of datum d: onHover received d,
\* the tooltip, when it is shown, displays d, and the bar of d is the only
\* one at opacity 1.
BarEnterAgrees ==
  LET d == data[ev.arg + 1]
  IN  /\ out = <<d>>
      /\ showTooltip => FindByLabel(data, hoveredLabel) = d
      /\ \A j \in 1..Len(data) :
            (BarOpacityOf(data[j].label, hoveredLabel, barOpacity) = RInt(1))
              <=> (j = ev.arg + 1)

C29_AxesFollowInputs ==
  (kind # "size" /\ mounted /\ ~crashed) =>
    IF iw > 0
    THEN axis = [x |-> XTickValues(kind, data, series, xTickInterval),
                 grid |-> iw]
    ELSE /\ axis.grid = 0
         /\ axis.x \in {<<>>, XTickValues(kind, data, series, xTickInterval)}

\* C30: every step that calls onHover(null), a pointer leave of either
\* chart, starts in a state in which the consumer has received a
\* populated payload since the mount or since the last onHover(null).
C30_NullFollowsHover ==
  [][(out' = <<Null>> /\ ev'.op \in {"mouseLeave", "barLeave"}) => told]_vars
====
